---- MODULE Spec2Model ----
(***************************************************************************)
(* Model of the watex lexer (src/src/lexer.rs) and of the two position     *)
(* trackers of the repository (src/src/lexer.rs and src/src/util.rs), and  *)
(* of Span::highlight_msg_in_code and Pos::map (src/src/structures.rs,     *)
(* src/src/lib.rs), and of the tex_macro attribute                         *)
(* (src/tex_macro_attr/src/lib.rs).                                        *)
(*                                                                         *)
(* Characters are Unicode code points (integers).  Option<T> values are    *)
(* records [some |-> FALSE] (None) and [some |-> TRUE, v |-> t] (Some(t)). *)
(* A call of Lexer::next is one step; the recursive collectors are         *)
(* RECURSIVE operators over the state of the Peekable<PosChars<Chars>>.    *)
(***************************************************************************)
EXTENDS Integers, Sequences, FiniteSets, TLC

VARIABLES
    code,     \* the &str handed to Lexer::new / the tracker, as code points
    chars,    \* Lexer.chars : Peekable<PosChars<Chars>>
    out,      \* the items Lexer::next has returned so far, in order
    ret,      \* what the last call of Lexer::next returned
    status,   \* "ok", or "panicked" once a call has unwound through expect
    idle,     \* number of calls of Lexer::next that returned None
    pc,       \* a stand-alone lexer.rs PosChars<Chars>
    pcOut,    \* the Pos<char> items pc has yielded
    upc,      \* a stand-alone util.rs PosChars<Chars>
    upcOut,   \* the Pos<char> items upc has yielded
    hl,       \* a call of Span::highlight_msg_in_code: arguments and outcome
    mp,       \* a Pos of lib.rs and one of structures.rs, and their map results
    mac       \* an expansion of the tex_macro attribute: parsed input and outcome

vars == <<code, chars, out, ret, status, idle, pc, pcOut, upc, upcOut, hl, mp, mac>>

----------------------------------------------------------------------------
(* Bounds *)

MaxLen == 4        \* longest input of the lexer specification
MaxIdle == 2       \* calls of next explored after exhaustion
MaxPosLen == 5     \* longest input of the tracker specification
MaxDigits == 21    \* longest digit run of the argument specification
MaxHlLen == 4      \* longest source text given to highlight_msg_in_code
MaxHlCol == 3      \* largest column of the span given to it
MaxMapVal == 2     \* largest value held by the Pos given to map
MaxMapPos == 3     \* largest line and column of that Pos
MaxArgs == 4       \* most arguments of a function given to tex_macro

----------------------------------------------------------------------------
(* Characters *)

NUL == 0
LF == 10
CR == 13
SPACE == 32
HASH == 35
PERCENT == 37
AMP == 38
PLUS == 43
DIGIT0 == 48
DIGIT1 == 49
DIGIT9 == 57
BACKSLASH == 92
CARET == 94
LETTERa == 97
NBSP == 160
EACUTE == 233
LBRACE == 123
RBRACE == 125

\* the characters the lexer inputs are drawn from
Alphabet ==
    {NUL, LF, SPACE, HASH, PERCENT, DIGIT1, BACKSLASH, LETTERa, LBRACE, NBSP,
     EACUTE}

\* the characters the tracker inputs are drawn from
PosAlphabet == {LF, SPACE, LETTERa}

RECURSIVE Strings(_, _)
Strings(A, n) ==
    IF n = 0 THEN {<<>>}
    ELSE LET S == Strings(A, n - 1)
         IN S \cup {Append(s, c) : s \in {t \in S : Len(t) = n - 1}, c \in A}

is_ascii_digit(c) == c \in 48..57

is_ascii_alphabetic(c) == c \in 65..90 \/ c \in 97..122

\* char::is_whitespace: the Unicode White_Space property
is_whitespace(c) ==
    \/ c \in 9..13
    \/ c \in {32, 133, 160, 5760, 8232, 8233, 8239, 8287, 12288}
    \/ c \in 8192..8202

----------------------------------------------------------------------------
(* Option, Pos, Token *)

None == [some |-> FALSE]

Some(v) == [some |-> TRUE, v |-> v]

Pos_new(val, x, y) == [val |-> val, x |-> x, y |-> y]

Command(s) == [kind |-> "Command", str |-> s]

Brace(side) == [kind |-> "Brace", side |-> side]

Arg(n) == [kind |-> "Arg", n |-> n]

Ampersand == [kind |-> "Ampersand"]

Whitespace(s) == [kind |-> "Whitespace", str |-> s]

Comment(s) == [kind |-> "Comment", str |-> s]

Char(c) == [kind |-> "Char", ch |-> c]

Eof == [kind |-> "Eof"]

Illegal == [kind |-> "Illegal"]

----------------------------------------------------------------------------
(* usize and str::parse::<usize> *)

\* usize::MAX = 18446744073709551615 as decimal digits (64-bit target)
UsizeMaxDigits == <<1,8,4,4,6,7,4,4,0,7,3,7,0,9,5,5,1,6,1,5>>

RECURSIVE StripZeros(_)
StripZeros(ds) ==
    IF Len(ds) > 1 /\ ds[1] = 0 THEN StripZeros(Tail(ds)) ELSE ds

\* lexicographic ds > es for digit sequences of the same length
RECURSIVE DigitsGreater(_, _)
DigitsGreater(ds, es) ==
    IF ds = <<>> THEN FALSE
    ELSE IF ds[1] # es[1] THEN ds[1] > es[1]
    ELSE DigitsGreater(Tail(ds), Tail(es))

\* a usize is kept as its canonical decimal digits (no leading zero), since
\* its 64 bits exceed the integers of the checker
ExceedsUsize(ds) ==
    \/ Len(ds) > Len(UsizeMaxDigits)
    \/ Len(ds) = Len(UsizeMaxDigits) /\ DigitsGreater(ds, UsizeMaxDigits)

\* <usize as FromStr>::from_str: Err on an empty string, on a lone sign, on
\* a character that is not a digit, and on a value above usize::MAX
str_parse(buffer) ==
    LET body == IF buffer # <<>> /\ buffer[1] = PLUS THEN Tail(buffer) ELSE buffer
        ds == StripZeros([k \in 1..Len(body) |-> body[k] - DIGIT0])
    IN IF body = <<>> \/ \E k \in 1..Len(body) : ~is_ascii_digit(body[k])
       THEN [ok |-> FALSE]
       ELSE IF ExceedsUsize(ds) THEN [ok |-> FALSE]
       ELSE [ok |-> TRUE, v |-> ds]

----------------------------------------------------------------------------
(* lexer.rs PosChars and Peekable *)
(*                                                                         *)
(* Rust evaluates arguments and let bindings once, before use.  The        *)
(* operators below do the same: a value that is used more than once is     *)
(* bound by a set constructor over a singleton, {e(v) : v \in {value}},     *)
(* and the single element of that set is the result.                       *)

\* the only element of a singleton set
The(S) == CHOOSE res \in S : TRUE

\* CreatePosChars::with_pos over code.chars()
with_pos == [chars |-> 0, x |-> 1, y |-> 1]

\* PosChars::next with the two counters exchanged, as in util.rs
PosChars_next_swapped(self) ==
    The({IF it.chars < Len(code)
         THEN The({[item |-> Some(Pos_new(ch, it.x, it.y)),
                    it |-> [chars |-> it.chars + 1,
                            x |-> IF ch = LF THEN it.x + 1 ELSE it.x,
                            y |-> IF ch = LF THEN 1 ELSE it.y + 1]]
                   : ch \in {code[it.chars + 1]}})
         ELSE [item |-> None, it |-> it]
         : it \in {self}})

\* PosChars::next that moves to the next column when the source is exhausted
PosChars_next_counting(self) ==
    The({IF it.chars < Len(code)
         THEN The({[item |-> Some(Pos_new(ch, it.x, it.y)),
                    it |-> [chars |-> it.chars + 1,
                            x |-> IF ch = LF THEN 1 ELSE it.x + 1,
                            y |-> IF ch = LF THEN it.y + 1 ELSE it.y]]
                   : ch \in {code[it.chars + 1]}})
         ELSE [item |-> None, it |-> [it EXCEPT !.x = it.x + 1]]
         : it \in {self}})

\* PosChars::next of lexer.rs; it.chars is the number of characters the
\* underlying Chars has yielded
PosChars_next(self) ==
    The({IF it.chars < Len(code)
         THEN The({[item |-> Some(Pos_new(ch, it.x, it.y)),
                    it |-> [chars |-> it.chars + 1,
                            x |-> IF ch = LF THEN 1 ELSE it.x + 1,
                            y |-> IF ch = LF THEN it.y + 1 ELSE it.y]]
                   : ch \in {code[it.chars + 1]}})
         ELSE [item |-> None, it |-> it]
         : it \in {self}})

\* the provided Iterator::size_hint, which PosChars does not override
Iterator_size_hint == [lo |-> 0, hi |-> None]

\* size_hint of the PosChars of lexer.rs
PosChars_size_hint(self) == Iterator_size_hint

\* Iterator::peekable
peekable(it) == [iter |-> it, peeked |-> None]

\* Peekable::next that reads past the buffered item
Peekable_next_unbuffered(self) ==
    The({The({[item |-> r.item, p |-> [p EXCEPT !.iter = r.it, !.peeked = None]]
              : r \in {PosChars_next(p.iter)}})
         : p \in {self}})

\* Peekable::next
Peekable_next(self) ==
    The({IF p.peeked.some
         THEN [item |-> p.peeked.v, p |-> [p EXCEPT !.peeked = None]]
         ELSE The({[item |-> r.item, p |-> [p EXCEPT !.iter = r.it]]
                   : r \in {PosChars_next(p.iter)}})
         : p \in {self}})

\* the type Pos<char>
PosChar == [val : Nat, x : Nat, y : Nat]

\* Peekable::next_if; the closure func is given as the set of the items it
\* accepts
Peekable_next_if(self, func) ==
    The({IF r.item.some /\ r.item.v \in func
         THEN [item |-> r.item, p |-> r.p]
         ELSE [item |-> None, p |-> [r.p EXCEPT !.peeked = Some(r.item)]]
         : r \in {Peekable_next(self)}})

----------------------------------------------------------------------------
(* Lexer *)

\* Lexer::new
Lexer_new == peekable(with_pos)

\* build_comment that stops at a newline only
RECURSIVE build_comment_newline(_, _)
build_comment_newline(self, buffer) ==
    The({IF r.item.some
         THEN build_comment_newline(r.p, Append(buf, r.item.v.val))
         ELSE [buffer |-> buf, p |-> r.p]
         : r \in {Peekable_next_if(self, {ch \in PosChar : ch.val # LF})},
           buf \in {buffer}})

RECURSIVE build_comment(_, _)
build_comment(self, buffer) ==
    The({IF r.item.some
         THEN build_comment(r.p, Append(buf, r.item.v.val))
         ELSE [buffer |-> buf, p |-> r.p]
         : r \in {Peekable_next_if(self, {ch \in PosChar : ch.val # LF /\ ch.val # NUL})},
           buf \in {buffer}})

\* collect_command that stops after one further letter
collect_command_short(self, current, buffer) ==
    The({IF r.item.some
         THEN [buffer |-> Append(buf, r.item.v.val), p |-> r.p]
         ELSE [buffer |-> buf, p |-> r.p]
         : r \in {Peekable_next_if(self, {ch \in PosChar : is_ascii_alphabetic(ch.val)})},
           buf \in {Append(buffer, current)}})

RECURSIVE collect_command(_, _, _)
collect_command(self, current, buffer) ==
    The({IF r.item.some
         THEN collect_command(r.p, r.item.v.val, buf)
         ELSE [buffer |-> buf, p |-> r.p]
         : r \in {Peekable_next_if(self, {ch \in PosChar : is_ascii_alphabetic(ch.val)})},
           buf \in {Append(buffer, current)}})

\* the result carries panic = TRUE when expect fails on the parse result
RECURSIVE collect_arg(_, _, _)
collect_arg(self, current, buffer) ==
    The({IF r.item.some
         THEN collect_arg(r.p, r.item.v.val, buf)
         ELSE The({[parsed |-> parsed, buffer |-> buf, p |-> r.p, panic |-> ~parsed.ok]
                   : parsed \in {str_parse(buf)}})
         : r \in {Peekable_next_if(self, {ch \in PosChar : is_ascii_digit(ch.val)})},
           buf \in {Append(buffer, current)}})

\* collect_whitespace that stops after one further character
collect_whitespace_short(self, current, buffer) ==
    The({IF r.item.some
         THEN [buffer |-> Append(buf, r.item.v.val), p |-> r.p]
         ELSE [buffer |-> buf, p |-> r.p]
         : r \in {Peekable_next_if(self, {ch \in PosChar : is_whitespace(ch.val)})},
           buf \in {Append(buffer, current)}})

RECURSIVE collect_whitespace(_, _, _)
collect_whitespace(self, current, buffer) ==
    The({IF r.item.some
         THEN collect_whitespace(r.p, r.item.v.val, buf)
         ELSE [buffer |-> buf, p |-> r.p]
         : r \in {Peekable_next_if(self, {ch \in PosChar : is_whitespace(ch.val)})},
           buf \in {Append(buffer, current)}})

\* the match of next_token on the character ch taken from the stream, whose
\* state after that is p
token_match(ch, p) ==
    CASE ch.val = LBRACE -> [val |-> Brace("Left"), p |-> p, panic |-> FALSE]
      [] ch.val = RBRACE -> [val |-> Brace("Right"), p |-> p, panic |-> FALSE]
      [] ch.val = AMP -> [val |-> Ampersand, p |-> p, panic |-> FALSE]
      [] ch.val = NUL -> [val |-> Eof, p |-> p, panic |-> FALSE]
      [] ch.val = BACKSLASH ->
            The({IF r.item.some
                 THEN The({[val |-> Command(c.buffer), p |-> c.p, panic |-> FALSE]
                           : c \in {collect_command(r.p, r.item.v.val, <<>>)}})
                 ELSE [val |-> Command(<<>>), p |-> r.p, panic |-> FALSE]
                 : r \in {Peekable_next(p)}})
      [] ch.val = PERCENT ->
            The({[val |-> Comment(c.buffer), p |-> c.p, panic |-> FALSE]
                 : c \in {build_comment(p, <<>>)}})
      [] ch.val = HASH ->
            The({IF r.item.some /\ is_ascii_digit(r.item.v.val)
                 THEN The({IF c.panic
                           THEN [val |-> Illegal, p |-> c.p, panic |-> TRUE]
                           ELSE [val |-> Arg(c.parsed.v), p |-> c.p, panic |-> FALSE]
                           : c \in {collect_arg(r.p, r.item.v.val, <<>>)}})
                 ELSE [val |-> Illegal, p |-> r.p, panic |-> FALSE]
                 : r \in {Peekable_next(p)}})
      [] OTHER ->
            IF is_whitespace(ch.val)
            THEN The({[val |-> Whitespace(c.buffer), p |-> c.p, panic |-> FALSE]
                      : c \in {collect_whitespace(p, ch.val, <<>>)}})
            ELSE [val |-> Char(ch.val), p |-> p, panic |-> FALSE]

\* next_token that takes the position from the stream after the match
next_token_endpos(self) ==
    The({IF r.item.some
         THEN The({[ret |-> Some([val |-> m.val, x |-> m.p.iter.x, y |-> m.p.iter.y]),
                    p |-> m.p, panic |-> m.panic]
                   : m \in {token_match(r.item.v, r.p)}})
         ELSE [ret |-> None, p |-> r.p, panic |-> FALSE]
         : r \in {Peekable_next(self)}})

\* next_token that answers an exhausted stream with an Eof token
next_token_eof_at_end(self) ==
    The({IF r.item.some
         THEN The({[ret |-> Some([val |-> m.val, x |-> r.item.v.x, y |-> r.item.v.y]),
                    p |-> m.p, panic |-> m.panic]
                   : m \in {token_match(r.item.v, r.p)}})
         ELSE [ret |-> Some([val |-> Eof, x |-> r.p.iter.x, y |-> r.p.iter.y]),
               p |-> r.p, panic |-> FALSE]
         : r \in {Peekable_next(self)}})

\* next_token that gives up (None) when a backslash is the last character
next_token_lone_backslash(self) ==
    The({IF r.item.some /\ ~(r.item.v.val = BACKSLASH /\ ~Peekable_next(r.p).item.some)
         THEN The({[ret |-> Some([val |-> m.val, x |-> r.item.v.x, y |-> r.item.v.y]),
                    p |-> m.p, panic |-> m.panic]
                   : m \in {token_match(r.item.v, r.p)}})
         ELSE [ret |-> None, p |-> r.p, panic |-> FALSE]
         : r \in {Peekable_next(self)}})

\* Lexer::next_token; when panic is TRUE the call does not return
next_token(self) ==
    The({IF r.item.some
         THEN The({[ret |-> Some([val |-> m.val, x |-> r.item.v.x, y |-> r.item.v.y]),
                    p |-> m.p, panic |-> m.panic]
                   : m \in {token_match(r.item.v, r.p)}})
         ELSE [ret |-> None, p |-> r.p, panic |-> FALSE]
         : r \in {Peekable_next(self)}})

\* number of characters of code the lexer has taken out of its stream
Consumed(p) ==
    p.iter.chars - (IF p.peeked.some /\ p.peeked.v.some THEN 1 ELSE 0)

\* number of bytes of a character in UTF-8
utf8_len(c) ==
    IF c < 128 THEN 1 ELSE IF c < 2048 THEN 2 ELSE IF c < 65536 THEN 3 ELSE 4

\* number of bytes of code after its first n characters
RECURSIVE RemainingBytes(_)
RemainingBytes(n) ==
    IF n >= Len(code) THEN 0 ELSE utf8_len(code[n + 1]) + RemainingBytes(n + 1)

\* Chars::size_hint of code.chars() after n characters
Chars_size_hint(n) ==
    The({[lo |-> (len + 3) \div 4, hi |-> Some(len)] : len \in {RemainingBytes(n)}})

\* Peekable::size_hint
Peekable_size_hint(self) ==
    IF self.peeked.some /\ ~self.peeked.v.some
    THEN [lo |-> 0, hi |-> Some(0)]
    ELSE The({[lo |-> h.lo + peek_len,
               hi |-> IF h.hi.some THEN Some(h.hi.v + peek_len) ELSE None]
              : h \in {PosChars_size_hint(self.iter)},
                peek_len \in {IF self.peeked.some THEN 1 ELSE 0}})

\* Lexer::size_hint
Lexer_size_hint(self) ==
    The({IF h.lo = 0 THEN [lo |-> 0, hi |-> h.hi] ELSE [lo |-> 1, hi |-> h.hi]
         : h \in {Peekable_size_hint(self)}})

\* the values of the tokens the lexer yields from now on, up to the first
\* None or to a call that does not return
RECURSIVE TokenValues(_)
TokenValues(self) ==
    The({IF r.panic \/ ~r.ret.some THEN <<>>
         ELSE <<r.ret.v.val>> \o TokenValues(r.p)
         : r \in {next_token(self)}})

\* Lexer::new on the part of code the lexer has not consumed
Lexer_new_on_rest(self) == peekable([chars |-> Consumed(self), x |-> 1, y |-> 1])

----------------------------------------------------------------------------
(* util.rs PosChars *)

\* WithPosChars::with_pos
util_with_pos == [chars |-> 0, lin |-> 1, col |-> 1]

Span_new(lin, col) == [lin |-> lin, col |-> col]

\* size_hint of the PosChars of util.rs
util_PosChars_size_hint(self) == Iterator_size_hint

\* PosChars::next of util.rs
util_PosChars_next(self) ==
    The({IF it.chars < Len(code)
         THEN The({[item |-> Some([val |-> ch, span |-> Span_new(it.lin, it.col)]),
                    it |-> [chars |-> it.chars + 1,
                            lin |-> IF ch = LF THEN 1 ELSE it.lin + 1,
                            col |-> IF ch = LF THEN it.col + 1 ELSE it.col]]
                   : ch \in {code[it.chars + 1]}})
         ELSE [item |-> None, it |-> it]
         : it \in {self}})

----------------------------------------------------------------------------
(* structures.rs: Span::highlight_msg_in_code, Pos::map; lib.rs: Pos::map *)

\* index of the first newline of text, 0 when it has none
FirstLF(text) ==
    IF \E k \in 1..Len(text) : text[k] = LF
    THEN CHOOSE k \in 1..Len(text) : text[k] = LF /\ \A j \in 1..(k - 1) : text[j] # LF
    ELSE 0

\* str::lines: the pieces of split_inclusive('\n'), each without its final
\* "\n" or "\r\n"; a last piece that has no '\n' is yielded as it is
RECURSIVE str_lines(_)
str_lines(text) ==
    IF text = <<>> THEN <<>>
    ELSE The({IF j = 0 THEN <<text>>
              ELSE <<IF j > 1 /\ text[j - 1] = CR
                     THEN SubSeq(text, 1, j - 2)
                     ELSE SubSeq(text, 1, j - 1)>>
                   \o str_lines(SubSeq(text, j + 1, Len(text)))
              : j \in {FirstLF(text)}})

\* iter::repeat(' ').take(self.col) collected: one space too many
padding_col(span, checks) ==
    [panic |-> FALSE, str |-> [k \in 1..span.col |-> SPACE]]

\* iter::repeat(' ').take(self.col - 1) collected.  With col = 0 the
\* subtraction panics in a build with overflow checks; without them it
\* wraps to usize::MAX and collecting that many characters panics with a
\* capacity overflow.
padding(span, checks) ==
    IF span.col >= 1
    THEN [panic |-> FALSE, str |-> [k \in 1..(span.col - 1) |-> SPACE]]
    ELSE [panic |-> TRUE,
          cause |-> IF checks THEN "attempt to subtract with overflow"
                    ELSE "capacity overflow"]

\* the for loop of highlight_msg_in_code over the lines still to come, with
\* the counter i and the text built so far
RECURSIVE highlight_loop(_, _, _, _, _, _)
highlight_loop(span, lines, i, result, msg, checks) ==
    IF lines = <<>> THEN [panic |-> FALSE, result |-> result]
    ELSE The({IF i = span.lin
              THEN The({IF pad.panic THEN [panic |-> TRUE, result |-> r1]
                        ELSE highlight_loop(span, Tail(lines), i + 1,
                                            r1 \o pad.str \o <<CARET, SPACE>> \o msg \o <<LF>>,
                                            msg, checks)
                        : pad \in {padding(span, checks)}})
              ELSE highlight_loop(span, Tail(lines), i + 1, r1, msg, checks)
              : r1 \in {result \o Head(lines) \o <<LF>>}})

\* highlight_msg_in_code with the line counter starting at 0
highlight_zero_based(span, text, msg, checks) ==
    highlight_loop(span, str_lines(text), 0, <<>>, msg, checks)

\* Span::highlight_msg_in_code
highlight_msg_in_code(span, text, msg, checks) ==
    highlight_loop(span, str_lines(text), 1, <<>>, msg, checks)

\* Pos::map of lib.rs with x and y exchanged
Pos_map_swapped(self, f) == Pos_new(f[self.val], self.y, self.x)

\* Pos::map of lib.rs; the closure f is given as a function
Pos_map(self, f) == Pos_new(f[self.val], self.x, self.y)

\* Pos::new of structures.rs
structures_Pos_new(val, span) == [val |-> val, span |-> span]

\* Pos::map of structures.rs
structures_Pos_map(self, f) == structures_Pos_new(f[self.val], self.span)

----------------------------------------------------------------------------
(* tex_macro_attr/src/lib.rs: the tex_macro attribute *)

TEX_MACRO_MAX_ARGS == 2

\* parse::Result
Ok(v) == [ok |-> TRUE, v |-> v]

Err(e) == [ok |-> FALSE, err |-> e]

\* parse::Error::new
Error_new(span, msg) == [span |-> span, msg |-> msg]

\* an Argument; span stands for the place of its tokens
Argument(mutability, name, span) ==
    [mutability |-> mutability, name |-> name, span |-> span]

\* validate that rejects TEX_MACRO_MAX_ARGS arguments as well
validate_inclusive(self) ==
    IF Len(self.args) >= TEX_MACRO_MAX_ARGS
    THEN IF self.args = <<>>
         THEN [panic |-> TRUE]
         ELSE [panic |-> FALSE,
               res |-> Err(Error_new(self.args[Len(self.args)].span,
                                     <<"Function's arity exceeds more than ",
                                       TEX_MACRO_MAX_ARGS, " arguments.">>))]
    ELSE [panic |-> FALSE, res |-> Ok(<<>>)]

\* AbstractFun::validate; panic is TRUE when expect fails on last()
validate(self) ==
    IF Len(self.args) > TEX_MACRO_MAX_ARGS
    THEN IF self.args = <<>>
         THEN [panic |-> TRUE]
         ELSE [panic |-> FALSE,
               res |-> Err(Error_new(self.args[Len(self.args)].span,
                                     <<"Function's arity exceeds more than ",
                                       TEX_MACRO_MAX_ARGS, " arguments.">>))]
    ELSE [panic |-> FALSE, res |-> Ok(<<>>)]

\* tex_macro2 on a parsed function: validation, then the name, then the
\* generated items; Ident::new panics on a name that is no identifier
tex_macro2(fun, attr) ==
    The({IF v.panic THEN [panic |-> TRUE, validated |-> None]
         ELSE IF ~v.res.ok THEN [panic |-> FALSE, validated |-> Some(v.res), res |-> v.res]
         ELSE IF attr = "other"
         THEN [panic |-> FALSE, validated |-> Some(v.res),
               res |-> Err(Error_new("attr", "Only takes string arguments"))]
         ELSE IF attr = "text" THEN [panic |-> TRUE, validated |-> Some(v.res)]
         ELSE [panic |-> FALSE, validated |-> Some(v.res),
               res |-> Ok([kind |-> "items", args |-> fun.args])]
         : v \in {validate(fun)}})

\* tex_macro: an Err of tex_macro2 becomes the tokens of a compile error
tex_macro(fun, attr) ==
    The({IF r.panic THEN r
         ELSE [panic |-> FALSE, validated |-> r.validated,
               output |-> IF r.res.ok THEN r.res.v
                          ELSE [kind |-> "compile_error", err |-> r.res.err]]
         : r \in {tex_macro2(fun, attr)}})

----------------------------------------------------------------------------
(* Initial states *)

LexInit ==
    /\ chars = Lexer_new
    /\ out = <<>>
    /\ ret = None
    /\ status = "ok"
    /\ idle = 0

PosInit ==
    /\ pc = with_pos
    /\ pcOut = <<>>
    /\ upc = util_with_pos
    /\ upcOut = <<>>

\* highlight_msg_in_code not yet called on the given arguments; checks tells
\* whether the build has overflow checks (debug) or not (release)
HlCall(span, text, msg, checks) ==
    [span |-> span, code |-> text, msg |-> msg, checks |-> checks,
     state |-> "init", result |-> <<>>]

\* map not yet called on Pos { val, x: a, y: b } of lib.rs and on
\* Pos { val, span: Span { lin: a, col: b } } of structures.rs
MapCall(val, a, b, f) ==
    [lib |-> Pos_new(val, a, b), st |-> [val |-> val, span |-> Span_new(a, b)],
     f |-> f, libMapped |-> None, stMapped |-> None]

\* tex_macro not yet expanded on a function that parsed into an
\* AbstractFun with the given args, under an attribute argument that is
\* empty, a string that is an identifier ("ident"), a string that is not
\* ("text"), or a literal that is no string ("other")
MacroCall(args, attr) ==
    [args |-> args, attr |-> attr, state |-> "init",
     validated |-> None, output |-> None]

StructInit ==
    /\ hl = HlCall(Span_new(1, 1), <<>>, <<>>, TRUE)
    /\ mp = MapCall(0, 1, 1, [v \in 0..MaxMapVal |-> v])
    /\ mac = MacroCall(<<>>, "empty")

Init ==
    /\ code \in Strings(Alphabet, MaxLen)
    /\ LexInit
    /\ PosInit
    /\ StructInit

InitPos ==
    /\ code \in Strings(PosAlphabet, MaxPosLen)
    /\ LexInit
    /\ PosInit
    /\ StructInit

\* n copies of the character c
Rep(c, n) == [k \in 1..n |-> c]

\* usize::MAX + 1 = 18446744073709551616 as decimal digits
UsizeOverDigits == <<1,8,4,4,6,7,4,4,0,7,3,7,0,9,5,5,1,6,1,6>>

\* digit runs up to and beyond the 20 digits of usize::MAX
DigitRuns ==
    {Rep(d, n) : d \in {DIGIT0, DIGIT1, DIGIT9}, n \in 1..MaxDigits}
    \cup {[k \in 1..Len(ds) |-> ds[k] + DIGIT0] : ds \in {UsizeMaxDigits, UsizeOverDigits}}

\* what follows the digit run
ArgTails == {<<>>, <<LETTERa>>, <<HASH>>, <<HASH, DIGIT1>>}

InitArg ==
    /\ code \in {<<HASH>> \o r \o t : r \in DigitRuns, t \in ArgTails}
    /\ LexInit
    /\ PosInit
    /\ StructInit

----------------------------------------------------------------------------
(* Actions *)

\* one call of Lexer::next (Iterator for Lexer)
Lexer_next ==
    /\ status = "ok"
    /\ idle < MaxIdle
    /\ \E r \in {next_token(chars)} :
          IF r.panic
          THEN /\ status' = "panicked"
               /\ UNCHANGED <<chars, out, ret, idle>>
          ELSE /\ chars' = r.p
               /\ ret' = r.ret
               /\ out' = IF r.ret.some
                         THEN Append(out, [tok |-> r.ret.v,
                                           from |-> Consumed(chars) + 1,
                                           to |-> Consumed(r.p)])
                         ELSE out
               /\ idle' = IF r.ret.some THEN idle ELSE idle + 1
               /\ UNCHANGED status
    /\ UNCHANGED <<code, pc, pcOut, upc, upcOut, hl, mp, mac>>

\* one call of next on the lexer.rs position tracker
PosChars_step ==
    /\ pc.chars < Len(code)
    /\ \E r \in {PosChars_next(pc)} :
          /\ pc' = r.it
          /\ pcOut' = Append(pcOut, r.item.v)
    /\ UNCHANGED <<code, chars, out, ret, status, idle, upc, upcOut, hl, mp, mac>>

\* one call of next on the util.rs position tracker
util_PosChars_step ==
    /\ upc.chars < Len(code)
    /\ \E r \in {util_PosChars_next(upc)} :
          /\ upc' = r.it
          /\ upcOut' = Append(upcOut, r.item.v)
    /\ UNCHANGED <<code, chars, out, ret, status, idle, pc, pcOut, hl, mp, mac>>

Next == Lexer_next

NextPos == PosChars_step \/ util_PosChars_step

Spec == Init /\ [][Next]_vars

SpecPos == InitPos /\ [][NextPos]_vars

SpecArg == InitArg /\ [][Next]_vars

\* the characters the highlighted texts are drawn from
HlAlphabet == {LF, CR, LETTERa}

\* the messages given to highlight_msg_in_code
HlMessages == {<<>>, <<LETTERa>>, <<LETTERa, LF>>}

InitHl ==
    /\ code = <<>>
    /\ LexInit
    /\ PosInit
    /\ mp = MapCall(0, 1, 1, [v \in 0..MaxMapVal |-> v])
    /\ mac = MacroCall(<<>>, "empty")
    /\ hl \in {HlCall(Span_new(lin, col), text, msg, checks) :
                  lin \in 0..(MaxHlLen + 1), col \in 0..MaxHlCol,
                  text \in Strings(HlAlphabet, MaxHlLen), msg \in HlMessages,
                  checks \in BOOLEAN}

InitMap ==
    /\ code = <<>>
    /\ LexInit
    /\ PosInit
    /\ hl = HlCall(Span_new(1, 1), <<>>, <<>>, TRUE)
    /\ mac = MacroCall(<<>>, "empty")
    /\ mp \in {MapCall(val, a, b, f) :
                  val \in 0..MaxMapVal, a \in 1..MaxMapPos, b \in 1..MaxMapPos,
                  f \in [0..MaxMapVal -> 0..MaxMapVal]}

\* the call of Span::highlight_msg_in_code
Highlight_step ==
    /\ hl.state = "init"
    /\ \E r \in {highlight_msg_in_code(hl.span, hl.code, hl.msg, hl.checks)} :
          hl' = IF r.panic
                THEN [hl EXCEPT !.state = "panicked"]
                ELSE [hl EXCEPT !.state = "returned", !.result = r.result]
    /\ UNCHANGED <<code, chars, out, ret, status, idle, pc, pcOut, upc, upcOut, mp, mac>>

\* the call of Pos::map of lib.rs
Pos_map_step ==
    /\ ~mp.libMapped.some
    /\ mp' = [mp EXCEPT !.libMapped = Some(Pos_map(mp.lib, mp.f))]
    /\ UNCHANGED <<code, chars, out, ret, status, idle, pc, pcOut, upc, upcOut, hl, mac>>

\* the call of Pos::map of structures.rs
structures_Pos_map_step ==
    /\ ~mp.stMapped.some
    /\ mp' = [mp EXCEPT !.stMapped = Some(structures_Pos_map(mp.st, mp.f))]
    /\ UNCHANGED <<code, chars, out, ret, status, idle, pc, pcOut, upc, upcOut, hl, mac>>

\* the names and mutabilities of the arguments given to tex_macro
ArgNames == {"a", "_"}

\* the argument lists of n arguments, the k-th at place k
ArgLists(n) ==
    {[k \in 1..n |-> Argument(ms[k], ns[k], k)] :
        ms \in [1..n -> BOOLEAN], ns \in [1..n -> ArgNames]}

InitMacro ==
    /\ code = <<>>
    /\ LexInit
    /\ PosInit
    /\ hl = HlCall(Span_new(1, 1), <<>>, <<>>, TRUE)
    /\ mp = MapCall(0, 1, 1, [v \in 0..MaxMapVal |-> v])
    /\ mac \in {MacroCall(args, attr) :
                   args \in UNION {ArgLists(n) : n \in 0..MaxArgs},
                   attr \in {"empty", "ident", "text", "other"}}

\* one expansion of the tex_macro attribute
tex_macro_step ==
    /\ mac.state = "init"
    /\ \E r \in {tex_macro(mac, mac.attr)} :
          mac' = IF r.panic
                 THEN [mac EXCEPT !.state = "panicked", !.validated = r.validated]
                 ELSE [mac EXCEPT !.state = "returned", !.validated = r.validated,
                                  !.output = Some(r.output)]
    /\ UNCHANGED <<code, chars, out, ret, status, idle, pc, pcOut, upc, upcOut, hl, mp>>

NextHl == Highlight_step

NextMap == Pos_map_step \/ structures_Pos_map_step

SpecHl == InitHl /\ [][NextHl]_vars

SpecMap == InitMap /\ [][NextMap]_vars

NextMacro == tex_macro_step

SpecMacro == InitMacro /\ [][NextMacro]_vars

----------------------------------------------------------------------------
(* Reference notions the properties are stated with, defined on the input  *)
(* text alone                                                              *)

\* 1-based line of the i-th character of code: one more than the number of
\* newlines before it
LineOf(i) == 1 + Cardinality({k \in 1..(i - 1) : code[k] = LF})

\* 1-based column of the i-th character of code: its distance from the last
\* newline before it (or from the start of the text)
ColOf(i) ==
    LET nls == {k \in 1..(i - 1) : code[k] = LF}
        last == IF nls = {} THEN 0 ELSE CHOOSE k \in nls : \A m \in nls : m <= k
    IN i - last

\* index of the last character of the maximal run of characters of the set
\* S that starts at index i (i - 1 when the run is empty)
RunEnd(i, S) ==
    CHOOSE j \in (i - 1)..Len(code) :
        /\ \A k \in i..j : code[k] \in S
        /\ j = Len(code) \/ code[j + 1] \notin S

AsciiLetters == {c \in Nat : is_ascii_alphabetic(c)}

AsciiDigits == {c \in Nat : is_ascii_digit(c)}

WhitespaceChars == {c \in Nat : is_whitespace(c)}

\* numeric value of a sequence of decimal digits (short sequences only)
RECURSIVE DecValue(_)
DecValue(ds) ==
    IF ds = <<>> THEN 0 ELSE 10 * DecValue(SubSeq(ds, 1, Len(ds) - 1)) + ds[Len(ds)]

\* the digits of a run of digit characters
DigitsOf(run) == [k \in 1..Len(run) |-> run[k] - DIGIT0]

Kind(e) == e.tok.val.kind

----------------------------------------------------------------------------
(* C1 *)

\* the claim for the sequences of the lines and of the columns yielded
TrackerRule(line, col) ==
    \A k \in 1..Len(line) :
        IF k = 1 THEN line[1] = 1 /\ col[1] = 1
        ELSE IF code[k - 1] = LF
             THEN col[k] = 1 /\ line[k] = line[k - 1] + 1
             ELSE line[k] = line[k - 1] /\ col[k] = col[k - 1] + 1

\* C1 (as claimed): every position tracker annotates the first character
\* with (line 1, column 1), the character after a newline with column 1 of
\* the next line, and the character after any other character with the next
\* column of the same line.  Fails for the tracker of util.rs.
C1_PosCharsRule ==
    /\ TrackerRule([k \in 1..Len(pcOut) |-> pcOut[k].y],
                   [k \in 1..Len(pcOut) |-> pcOut[k].x])
    /\ TrackerRule([k \in 1..Len(upcOut) |-> upcOut[k].span.lin],
                   [k \in 1..Len(upcOut) |-> upcOut[k].span.col])

\* C1 restricted to the tracker of lexer.rs (x the column, y the line)
C1_LexerPosCharsRule ==
    TrackerRule([k \in 1..Len(pcOut) |-> pcOut[k].y],
                [k \in 1..Len(pcOut) |-> pcOut[k].x])

----------------------------------------------------------------------------
(* C2 *)

\* C2 (as claimed): a token triggered by a backslash that is followed by a
\* character n is Command of the maximal run of ASCII letters starting at n
\* when n is an ASCII letter, and Command of n alone otherwise, consuming
\* nothing after n.  Fails on a non-letter followed by letters.
C2_ControlName ==
    \A k \in 1..Len(out) :
        LET e == out[k]
        IN (code[e.from] = BACKSLASH /\ e.from < Len(code)) =>
              LET n == code[e.from + 1]
                  last == IF is_ascii_alphabetic(n)
                          THEN RunEnd(e.from + 1, AsciiLetters)
                          ELSE e.from + 1
              IN /\ Kind(e) = "Command"
                 /\ e.tok.val.str = SubSeq(code, e.from + 1, last)
                 /\ e.to = last

----------------------------------------------------------------------------
(* C3 *)

\* C3 (as claimed): a token triggered by # is Arg of the base-10 value of
\* the maximal digit run after it (consuming exactly the run) when that run
\* is not empty, and the illegal-character error otherwise; a call triggered
\* by # has no other outcome.  Fails when the run exceeds usize::MAX: the
\* call panics.
C3_HashOutcome ==
    /\ status = "ok"
    /\ \A k \in 1..Len(out) :
          LET e == out[k]
              last == RunEnd(e.from + 1, AsciiDigits)
              run == SubSeq(code, e.from + 1, last)
          IN code[e.from] = HASH =>
                IF run # <<>>
                THEN /\ Kind(e) = "Arg"
                     /\ e.tok.val.n = StripZeros(DigitsOf(run))
                     /\ Len(run) <= 9 => DecValue(e.tok.val.n) = DecValue(DigitsOf(run))
                     /\ e.to = last
                ELSE Kind(e) = "Illegal"

----------------------------------------------------------------------------
(* C4 *)

\* the maximal runs of whitespace of code that the lexer has gone past, as
\* pairs <<first, last>> of indices
PassedWhitespaceRuns ==
    {r \in (1..Len(code)) \X (1..Len(code)) :
        /\ r[1] <= r[2]
        /\ \A k \in r[1]..r[2] : is_whitespace(code[k])
        /\ r[1] = 1 \/ ~is_whitespace(code[r[1] - 1])
        /\ r[2] = Len(code) \/ ~is_whitespace(code[r[2] + 1])
        /\ r[2] <= Consumed(chars)}

NoAdjacentWhitespace ==
    \A k \in 1..(Len(out) - 1) :
        ~(Kind(out[k]) = "Whitespace" /\ Kind(out[k + 1]) = "Whitespace")

\* C4 (as claimed): no two adjacent tokens are both Whitespace, and every
\* maximal run of whitespace characters of the input appears as exactly one
\* Whitespace token whose text is the entire run.  Fails for whitespace
\* taken by a Comment, Command or Illegal token.
C4_WhitespaceRuns ==
    /\ NoAdjacentWhitespace
    /\ \A r \in PassedWhitespaceRuns :
          Cardinality({k \in 1..Len(out) :
                          /\ Kind(out[k]) = "Whitespace"
                          /\ out[k].from = r[1]
                          /\ out[k].to = r[2]
                          /\ out[k].tok.val.str = SubSeq(code, r[1], r[2])}) = 1

\* C4 (amended): no two adjacent tokens are both Whitespace; a token is
\* Whitespace exactly when a whitespace character triggered it, and its text
\* is exactly the input from that character to the end of the maximal
\* whitespace run containing it, so no run holds two Whitespace tokens.
C4_WhitespaceTokens ==
    /\ NoAdjacentWhitespace
    /\ \A k \in 1..Len(out) :
          LET e == out[k]
          IN /\ Kind(e) = "Whitespace" <=> is_whitespace(code[e.from])
             /\ Kind(e) = "Whitespace" =>
                  /\ e.to = RunEnd(e.from, WhitespaceChars)
                  /\ e.tok.val.str = SubSeq(code, e.from, e.to)
    /\ \A r \in PassedWhitespaceRuns :
          Cardinality({k \in 1..Len(out) :
                          /\ Kind(out[k]) = "Whitespace"
                          /\ r[1] <= out[k].from
                          /\ out[k].to <= r[2]}) <= 1

\* a Whitespace token of two characters has been produced after a Comment
\* that took a whitespace character
C4_Witness ==
    \E k \in 1..Len(out), j \in 1..Len(out) :
        /\ Kind(out[k]) = "Whitespace"
        /\ out[k].to > out[k].from
        /\ Kind(out[j]) = "Comment"
        /\ \E m \in 1..Len(out[j].tok.val.str) : is_whitespace(out[j].tok.val.str[m])

----------------------------------------------------------------------------
(* C5 *)

\* C5: the position of every token is the line and column, in the input
\* text, of the character that triggered its dispatch.
C5_TokenPosition ==
    \A k \in 1..Len(out) :
        /\ out[k].tok.y = LineOf(out[k].from)
        /\ out[k].tok.x = ColOf(out[k].from)

\* a token of several characters that ends on a later line than it starts
\* has been produced, past the first line and the first column
C5_Witness ==
    \E k \in 1..Len(out) :
        /\ out[k].to > out[k].from
        /\ LineOf(out[k].to) > LineOf(out[k].from)
        /\ out[k].tok.x > 1

----------------------------------------------------------------------------
(* C6 *)

\* C6: of two consecutive tokens the second is on a later line, or on the
\* same line at a greater column; lines and columns are at least 1.
C6_PositionMonotone ==
    /\ \A k \in 1..Len(out) : out[k].tok.x >= 1 /\ out[k].tok.y >= 1
    /\ \A k \in 1..(Len(out) - 1) :
          LET t1 == out[k].tok
              t2 == out[k + 1].tok
          IN t2.y >= t1.y /\ (t2.y = t1.y => t2.x > t1.x)

\* three tokens, the first two on one line and the third on a later one
C6_Witness ==
    /\ Len(out) >= 3
    /\ out[1].tok.y = out[2].tok.y
    /\ out[3].tok.y > out[2].tok.y

----------------------------------------------------------------------------
(* C7 *)

C7_Step ==
    LET n == Consumed(chars)
    IN /\ n = Len(code) => ret' = None /\ out' = out
       /\ n < Len(code) =>
             /\ ret'.some
             /\ out' = Append(out, [tok |-> ret'.v, from |-> n + 1,
                                    to |-> Consumed(chars')])
             /\ ret'.v.val.kind = "Eof" <=> code[n + 1] = NUL
       /\ (ret.some /\ ret.v.val.kind = "Eof" /\ n < Len(code)) => ret'.some

\* C7: a call on an exhausted stream returns None and adds no token; a call
\* on a stream that is not exhausted returns a token, which is Eof exactly
\* when the triggering character is NUL; so the call after an Eof token
\* returns a token whenever characters follow the NUL.
C7_EofOnlyForNul == [][C7_Step]_vars

\* an Eof token was followed by another token and then by None
C7_Witness ==
    /\ \E k \in 1..(Len(out) - 1) : Kind(out[k]) = "Eof"
    /\ ret = None
    /\ idle >= 1

----------------------------------------------------------------------------
(* C8 *)

\* C8 (as claimed): on every finite input the calls of next reach
\* exhaustion after at most one token per character, and no call panics.
\* Fails when a digit run exceeds usize::MAX: expect panics on the parse
\* error.
C8_NeverFaults ==
    /\ status = "ok"
    /\ Len(out) <= Len(code)

----------------------------------------------------------------------------
(* C9 *)

\* C9: a % always triggers a Comment; the text of a Comment token is
\* exactly the characters after its % up to the next newline, NUL or end of
\* input, so it holds neither newline nor NUL; the terminator is not
\* consumed and triggers the next token.
C9_CommentText ==
    \A k \in 1..Len(out) :
        LET e == out[k]
        IN /\ code[e.from] = PERCENT <=> Kind(e) = "Comment"
           /\ Kind(e) = "Comment" =>
                /\ e.to = RunEnd(e.from + 1, Nat \ {LF, NUL})
                /\ e.tok.val.str = SubSeq(code, e.from + 1, e.to)
                /\ \A m \in 1..Len(e.tok.val.str) : e.tok.val.str[m] \notin {LF, NUL}
                /\ e.to = Len(code) \/ code[e.to + 1] \in {LF, NUL}
                /\ IF k < Len(out)
                   THEN out[k + 1].from = e.to + 1
                   ELSE Consumed(chars) = e.to

\* a Comment with text was ended by a NUL, which became the next token
C9_Witness ==
    \E k \in 1..(Len(out) - 1) :
        /\ Kind(out[k]) = "Comment"
        /\ out[k].tok.val.str # <<>>
        /\ Kind(out[k + 1]) = "Eof"

----------------------------------------------------------------------------
(* C10 *)

\* the # characters of the input that are not followed by a digit and are
\* not part of a Comment or Command token
IllegalHashes ==
    {i \in 1..Len(code) :
        /\ code[i] = HASH
        /\ i = Len(code) \/ ~is_ascii_digit(code[i + 1])
        /\ ~\E k \in 1..Len(out) :
              /\ Kind(out[k]) \in {"Comment", "Command"}
              /\ out[k].from < i /\ i <= out[k].to}

\* C10 (as claimed): the Illegal token is produced only for a # that is not
\* followed by an ASCII digit; the call after it goes on with the input
\* after that #; and once the input is exhausted there is one Illegal token
\* per illegal # of the input.  Fails because the character after an
\* illegal # is consumed and dropped.
C10_ErrorPerHash ==
    /\ \A k \in 1..Len(out) :
          Kind(out[k]) = "Illegal" =>
             /\ code[out[k].from] = HASH
             /\ out[k].from = Len(code) \/ ~is_ascii_digit(code[out[k].from + 1])
             /\ k < Len(out) => out[k + 1].from = out[k].from + 1
    /\ (idle >= 1 /\ status = "ok") =>
          Cardinality({k \in 1..Len(out) : Kind(out[k]) = "Illegal"})
             = Cardinality(IllegalHashes)

----------------------------------------------------------------------------
(* C11 *)

\* the set of characters on which the sub-scan of the token e continues,
\* and the index at which that sub-scan starts
ScanSet(e) ==
    CASE Kind(e) = "Command" -> AsciiLetters
      [] Kind(e) = "Comment" -> Nat \ {LF, NUL}
      [] Kind(e) = "Whitespace" -> WhitespaceChars
      [] OTHER -> AsciiDigits

\* C11 (as claimed): in every sub-scan (command name, comment body,
\* whitespace run, digit run, and the digit check right after #) the first
\* character that fails the continuation test is left unconsumed and
\* triggers the following call.  Fails for the digit check after #, which
\* consumes the character it rejects.
C11_RejectedCharKept ==
    \A k \in 1..Len(out) :
        LET e == out[k]
        IN /\ Kind(e) \in {"Command", "Comment", "Whitespace", "Arg"} =>
                e.to = Len(code) \/ code[e.to + 1] \notin ScanSet(e)
           /\ Kind(e) = "Illegal" => e.to = e.from
           /\ Kind(e) \in {"Command", "Comment", "Whitespace", "Arg", "Illegal"} =>
                IF k < Len(out) THEN out[k + 1].from = e.to + 1
                ELSE Consumed(chars) = e.to

----------------------------------------------------------------------------
(* C12 *)

C12_Step ==
    LET n == Consumed(chars)
    IN /\ (n + 1 = Len(code) /\ code[n + 1] = BACKSLASH) =>
             /\ ret'.some
             /\ ret'.v.val.kind = "Command"
             /\ ret'.v.val.str = <<>>
             /\ Len(out') = Len(out) + 1
             /\ Consumed(chars') = Len(code)
       /\ (ret.some /\ ret.v.val.kind = "Command" /\ ret.v.val.str = <<>>) =>
             ret' = None /\ out' = out

\* C12: a call triggered by a backslash that is the last character of the
\* input returns one token, Command of the empty name, and the call after a
\* Command of the empty name returns None.
C12_LoneBackslash == [][C12_Step]_vars

\* after other tokens a lone backslash gave Command of the empty name, and
\* the next call returned None
C12_Witness ==
    /\ Len(out) >= 2
    /\ Kind(out[Len(out)]) = "Command"
    /\ out[Len(out)].tok.val.str = <<>>
    /\ ret = None
    /\ idle >= 1

----------------------------------------------------------------------------
(* Span::highlight_msg_in_code *)

\* positions of the newlines of the highlighted text
HlNewlines == {k \in 1..Len(hl.code) : hl.code[k] = LF}

\* number of source lines: one per newline, and one more for text after the
\* last newline
HlNumLines ==
    Cardinality(HlNewlines)
      + (IF Len(hl.code) > 0 /\ hl.code[Len(hl.code)] # LF THEN 1 ELSE 0)

\* position of the k-th newline; 0 for k = 0, one past the text when the
\* k-th line has no newline
HlNewlineAt(k) ==
    IF k = 0 THEN 0
    ELSE IF k <= Cardinality(HlNewlines)
    THEN CHOOSE q \in HlNewlines : Cardinality({j \in HlNewlines : j < q}) = k - 1
    ELSE Len(hl.code) + 1

\* the k-th source line, without its line ending ("\n" or "\r\n")
HlLine(k) ==
    LET from == HlNewlineAt(k - 1) + 1
        to == HlNewlineAt(k) - 1
    IN IF to >= from /\ to < Len(hl.code) /\ hl.code[to] = CR
       THEN SubSeq(hl.code, from, to - 1)
       ELSE SubSeq(hl.code, from, to)

\* the caret line: col - 1 spaces, a caret, a space, the message, a newline
HlCaretLine == [k \in 1..(hl.span.col - 1) |-> SPACE] \o <<CARET, SPACE>> \o hl.msg \o <<LF>>

\* source lines k.. each followed by a newline, the caret line after line
\* number at (none when at is no line number)
RECURSIVE HlExpected(_, _)
HlExpected(k, at) ==
    IF k > HlNumLines THEN <<>>
    ELSE HlLine(k) \o <<LF>> \o (IF k = at THEN HlCaretLine ELSE <<>>)
           \o HlExpected(k + 1, at)

\* C13: for a span with col >= 1, highlight_msg_in_code returns every source
\* line unmodified and followed by a newline, and directly after line number
\* lin a caret line of col - 1 spaces, a caret, one space, the message and a
\* newline.
C13_Highlight ==
    (hl.state # "init" /\ hl.span.col >= 1) =>
        /\ hl.state = "returned"
        /\ hl.result = HlExpected(1, hl.span.lin)

\* a call with col >= 2 that has put the caret line between two source lines
C13_Witness ==
    /\ hl.state = "returned"
    /\ hl.span.col >= 2
    /\ hl.span.lin >= 1
    /\ hl.span.lin < HlNumLines
    /\ hl.msg # <<>>
    /\ \E k \in 1..Len(hl.code) : hl.code[k] = CR

\* C20 (as claimed): the caret line is inserted once when 1 <= lin <= number
\* of source lines and otherwise just the source lines are returned, and a
\* span with col = 0 underflows instead of producing output.  Fails for
\* col = 0 with lin outside 1..number of lines: col - 1 is never computed
\* and the source lines are returned.
C20_CaretOrUnderflow ==
    hl.state # "init" =>
        IF hl.span.col = 0 THEN hl.state = "panicked"
        ELSE /\ hl.state = "returned"
             /\ hl.result = HlExpected(1, hl.span.lin)

\* C20 (amended): when 1 <= lin <= number of source lines, a span with
\* col >= 1 gets the caret line inserted after line lin and nowhere else, and
\* a span with col = 0 underflows with no output; when lin is outside that
\* range just the source lines are returned, whatever col is.
C20_CaretOnlyInRange ==
    hl.state # "init" =>
        IF hl.span.lin >= 1 /\ hl.span.lin <= HlNumLines
        THEN IF hl.span.col = 0 THEN hl.state = "panicked"
             ELSE /\ hl.state = "returned"
                  /\ hl.result = HlExpected(1, hl.span.lin)
                  /\ hl.result # HlExpected(1, 0)
        ELSE /\ hl.state = "returned"
             /\ hl.result = HlExpected(1, 0)
             /\ Len(hl.result) = Len(hl.code) + HlNumLines - Cardinality(HlNewlines)
                                   - Cardinality({k \in HlNewlines : k > 1 /\ hl.code[k - 1] = CR})

\* a span with col = 0 and lin past the last of several lines, returned
C20_Witness ==
    /\ hl.state = "returned"
    /\ hl.span.col = 0
    /\ HlNumLines >= 2
    /\ hl.span.lin > HlNumLines

----------------------------------------------------------------------------
(* Pos::map *)

\* C15: Pos::map replaces the value by the function's result and keeps the
\* position, in lib.rs (x, y) and in structures.rs (span).
C15_MapKeepsPosition ==
    /\ mp.libMapped.some =>
          /\ mp.libMapped.v.val = mp.f[mp.lib.val]
          /\ mp.libMapped.v.x = mp.lib.x
          /\ mp.libMapped.v.y = mp.lib.y
    /\ mp.stMapped.some =>
          /\ mp.stMapped.v.val = mp.f[mp.st.val]
          /\ mp.stMapped.v.span = mp.st.span

\* both maps applied with a function that changes the value, at a position
\* whose two coordinates differ
C15_Witness ==
    /\ mp.libMapped.some
    /\ mp.stMapped.some
    /\ mp.f[mp.lib.val] # mp.lib.val
    /\ mp.lib.x # mp.lib.y

----------------------------------------------------------------------------
(* The example of the tests *)

\* EXAMPLE_LATEX: a newline,
\*   \newcommand{\u}[1]{2^#1}
\*   3^x &\geq\u{93\%} % I'm a comment.
\* and a final #, as code points
EXAMPLE_LATEX ==
    <<10, 92, 110, 101, 119, 99, 111, 109, 109, 97, 110, 100,
      123, 92, 117, 125, 91, 49, 93, 123, 50, 94, 35, 49,
      125, 10, 51, 94, 120, 32, 38, 92, 103, 101, 113, 92,
      117, 123, 57, 51, 92, 37, 125, 32, 37, 32, 73, 39,
      109, 32, 97, 32, 99, 111, 109, 109, 101, 110, 116, 46,
      10, 35>>

\* example_latex_tokenized
example_latex_tokenized ==
    <<Whitespace(<<10>>),
      Command(<<110, 101, 119, 99, 111, 109, 109, 97, 110, 100>>),
      Brace("Left"),
      Command(<<117>>),
      Brace("Right"),
      Char(91),
      Char(49),
      Char(93),
      Brace("Left"),
      Char(50),
      Char(94),
      Arg(<<1>>),
      Brace("Right"),
      Whitespace(<<10>>),
      Char(51),
      Char(94),
      Char(120),
      Whitespace(<<32>>),
      Ampersand,
      Command(<<103, 101, 113>>),
      Command(<<117>>),
      Brace("Left"),
      Char(57),
      Char(51),
      Command(<<37>>),
      Brace("Right"),
      Whitespace(<<32>>),
      Comment(<<32, 73, 39, 109, 32, 97, 32, 99, 111, 109, 109, 101, 110, 116, 46>>),
      Whitespace(<<10>>),
      Illegal>>

\* the lexer on every prefix of the example
InitEx ==
    /\ code \in {SubSeq(EXAMPLE_LATEX, 1, n) : n \in 0..Len(EXAMPLE_LATEX)}
    /\ LexInit
    /\ PosInit
    /\ StructInit

SpecEx == InitEx /\ [][Next]_vars

\* C14: lexing the example yields exactly the 30 expected tokens in order
\* and then exhaustion: every token produced is the expected one at its
\* place, the lexer does not fault, and once it has returned None it has
\* produced all 30.
C14_Example ==
    code = EXAMPLE_LATEX =>
        /\ status = "ok"
        /\ Len(example_latex_tokenized) = 30
        /\ Len(out) <= 30
        /\ \A k \in 1..Len(out) : out[k].tok.val = example_latex_tokenized[k]
        /\ idle >= 1 => (Len(out) = 30 /\ ret = None)
        /\ (Len(out) = 30 /\ ~ret.some) => idle >= 1

\* the whole example lexed and None returned twice
C14_Witness ==
    /\ code = EXAMPLE_LATEX
    /\ Len(out) = 30
    /\ ret = None
    /\ idle = MaxIdle

----------------------------------------------------------------------------
(* Size hints, memorylessness, accounting of characters, exhaustion *)

\* C16 (as claimed): the position tracker forwards the size hint of its
\* character source; the lexer's lower bound is 0 when the buffered
\* stream's is 0 and 1 otherwise, with the stream's upper bound passed
\* through; when the lower bound is 1 the next call returns a token, and the
\* tokens still to come never exceed the upper bound.  Fails: neither
\* tracker implements size_hint, so both report (0, None).
C16_SizeHint ==
    /\ PosChars_size_hint(chars.iter) = Chars_size_hint(chars.iter.chars)
    /\ util_PosChars_size_hint(upc) = Chars_size_hint(upc.chars)
    /\ LET h == Lexer_size_hint(chars)
           b == Peekable_size_hint(chars)
       IN /\ h.lo = (IF b.lo = 0 THEN 0 ELSE 1)
          /\ h.hi = b.hi
          /\ (status = "ok" /\ h.lo = 1) =>
                (next_token(chars).ret.some /\ ~next_token(chars).panic)
          /\ (status = "ok" /\ h.hi.some) => Len(TokenValues(chars)) <= h.hi.v

\* C17: between two calls of next, the token values the lexer yields from
\* then on are those of a fresh lexer on the unconsumed rest of the input.
C17_Memoryless ==
    status = "ok" => TokenValues(chars) = TokenValues(Lexer_new_on_rest(chars))

\* a lexer that has yielded a token, holds a character in its buffer and
\* has two tokens or more to come
C17_Witness ==
    /\ Len(out) >= 1
    /\ chars.peeked.some
    /\ chars.peeked.v.some
    /\ Len(TokenValues(chars)) >= 2

\* C18 (as claimed): every character consumed is the triggering character
\* of exactly one token or is recorded in that token's payload: the tokens
\* lie end to end on the input, a token without text covers its triggering
\* character only, and the characters after the triggering one are the
\* token's name, comment text, whitespace text or digit run.  Fails for the
\* character after a # that is not a digit.
C18_NothingDiscarded ==
    \A k \in 1..Len(out) :
        LET e == out[k]
            rest == SubSeq(code, e.from + 1, e.to)
        IN /\ e.from = (IF k = 1 THEN 1 ELSE out[k - 1].to + 1)
           /\ k = Len(out) => e.to = Consumed(chars)
           /\ CASE Kind(e) \in {"Command", "Comment"} -> e.tok.val.str = rest
                [] Kind(e) = "Whitespace" -> e.tok.val.str = <<code[e.from]>> \o rest
                [] Kind(e) = "Arg" ->
                     /\ \A j \in 1..Len(rest) : rest[j] \in AsciiDigits
                     /\ e.tok.val.n = StripZeros(DigitsOf(rest))
                [] OTHER -> e.to = e.from

\* C19: once next has returned None every later call returns None, and a
\* call that returns None leaves the line and column counters of the
\* position tracker as they were; the trackers of lexer.rs and util.rs at
\* the end of their source yield None and stay as they are.
C19_Step ==
    /\ (ret = None /\ idle >= 1) => (ret' = None /\ out' = out)
    /\ (ret' = None /\ idle' = idle + 1) =>
          (chars'.iter.x = chars.iter.x /\ chars'.iter.y = chars.iter.y)
    /\ \A l \in 1..3, c \in 1..3 :
          /\ PosChars_next([chars |-> Len(code), x |-> c, y |-> l])
               = [item |-> None, it |-> [chars |-> Len(code), x |-> c, y |-> l]]
          /\ util_PosChars_next([chars |-> Len(code), lin |-> l, col |-> c])
               = [item |-> None, it |-> [chars |-> Len(code), lin |-> l, col |-> c]]

C19_ExhaustionStable == [][C19_Step]_vars

\* next has returned None twice after tokens on more than one line
C19_Witness ==
    /\ idle >= 2
    /\ ret = None
    /\ Len(out) >= 1
    /\ chars.iter.y >= 2
    /\ chars.iter.x >= 2

----------------------------------------------------------------------------
(* The tex_macro attribute *)

\* C21: the validation of the tex_macro attribute rejects a function with an
\* error exactly when it has more than 2 arguments and accepts every
\* function of 0, 1 or 2 arguments; the error is a value, which the
\* attribute turns into compile error output, and no fault.
C21_ArityValidation ==
    mac.state # "init" =>
        /\ mac.validated.some
        /\ mac.validated.v.ok <=> Len(mac.args) \in {0, 1, 2}
        /\ Len(mac.args) > 2 =>
              /\ mac.state = "returned"
              /\ mac.output.v.kind = "compile_error"
              /\ mac.output.v.err = mac.validated.v.err
              /\ mac.output.v.err.span = Len(mac.args)

\* a function of three arguments, rejected with compile error output
C21_Witness ==
    /\ mac.state = "returned"
    /\ Len(mac.args) = 3
    /\ mac.output.v.kind = "compile_error"
    /\ ~mac.validated.v.ok

====
